---- MODULE Spec2Model ----
(***************************************************************************)
(* A model of typenil/present: the live-typing reveal engine               *)
(* (effects.Codio), the transcript element that feeds it (slide.Codio),    *)
(* the keyboard-driven playback loop (slideshow.Slide / Slideshow) and the *)
(* slide assembler with its style validator (slide.Slide).                 *)
(*                                                                         *)
(* Python lists are TLA+ sequences (list index i is sequence index i+1);   *)
(* Python dicts keyed by 0..n-1 are functions on 0..n-1.  Python's None is *)
(* the record NoneV, a present string s is Some(s).                        *)
(***************************************************************************)
EXTENDS Integers, Sequences, FiniteSets, TLC

VARIABLES
    obj,            \* obj[s][r]: the transcript definition ("lines") of element r of slide s
    code,           \* code[s][r]: Codio._code of the renderer built from obj[s][r]
    state,          \* state[s][r]: Codio._state, a dict i -> {len, start, end}
    image,          \* image[s][r]: the _write calls of the renderer's last _render_now
    current_slide,  \* Slideshow.current_slide
    scene,          \* index of the scene the screen displays; NumSlides is the restart screen
    loop,           \* position of Slideshow.play: "outer", "inner" or "stopped"
    error,          \* the exception that ended the program, "none" while it runs
    elements,       \* the element list handed to slide.Slide(elements=...)
    slide,          \* the slide.Slide object under construction / constructed
    document,       \* the node list mistune hands to Markdown.parse
    parsed,         \* what Markdown.parse returned or raised
    formatter,      \* the DynamicFormatter: its options, then its colorscheme
    lookup,         \* the last _get_color call: token type, result, parent hops
    codio,          \* a transcript element's obj: its lines and its speed
    printed,        \* the Print effect effects.codio builds for that element
    printable,      \* the heading or code block element about to be printed
    rendered,       \* what printing it produced: size, text, attribute
    tokensource,    \* the (ttype, value) pairs handed to format_unencoded
    outfile,        \* the cells format_unencoded wrote
    ticks           \* frames drawn since the renderer was built, counted in SpecLive

vars == <<obj, code, state, image, current_slide, scene, loop, error, elements, slide,
          document, parsed, formatter, lookup, codio, printed,
          printable, rendered, tokensource, outfile, ticks>>

showVars == <<obj, code, state, image, current_slide, scene, loop, error>>

slideVars == <<elements, slide>>

parseVars == <<document, parsed>>

formatterVars == <<formatter, lookup>>

codioVars == <<codio, printed>>

renderVars == <<printable, rendered>>

formatVars == <<tokensource, outfile>>

clockVars == <<ticks>>

moreVars == <<renderVars, formatVars, clockVars>>

restVars == <<parseVars, formatterVars, codioVars, moreVars>>

-----------------------------------------------------------------------------
(* Bounds *)

MaxLines == 2       \* longest transcript drawn in SpecReveal

\* frames counted in SpecLive: past the last tick any transcript drawn needs
\* (inputs have at most 2 characters)
TickCap == 3 * MaxLines + 2

MaxOver == 1        \* how far current_slide may run past either end of the slide list

MaxElements == 2    \* longest element list drawn in SpecSlide

-----------------------------------------------------------------------------
(* Python helpers *)

NoneV == [none |-> TRUE, text |-> ""]

Some(t) == [none |-> FALSE, text |-> t]

Max(a, b) == IF a >= b THEN a ELSE b

RECURSIVE Repeat(_, _)
\* Python's  s * n  on strings
Repeat(s, n) == IF n <= 0 THEN "" ELSE s \o Repeat(s, n - 1)

Prefix_Inclusive(s, n) == IF n + 1 >= Len(s) THEN s ELSE SubSeq(s, 1, n + 1)

\* Python's  s[:n]  for 0 <= n
Prefix(s, n) == IF n >= Len(s) THEN s ELSE SubSeq(s, 1, n)

\* Python's  s.count(" ")
CountSpaces(s) == Cardinality({k \in 1..Len(s) : SubSeq(s, k, k) = " "})

-----------------------------------------------------------------------------
(* slide.Codio: the transcript element *)

\* shutil.get_terminal_size()[0], the detected terminal width
TerminalColumns == 8

\* one entry of obj["lines"]; absent keys are the .get defaults
YamlLine(prompt, in, out, progress, progressChar) ==
    [prompt |-> prompt, in |-> in, out |-> out,
     progress |-> progress, progressChar |-> progressChar]

TextLines ==
    {YamlLine(p, i, o, FALSE, "#") : p \in {"", "$"}, i \in {"", "a", "bb"}, o \in {"", "1"}}
    \cup {YamlLine("", "bb", "2", FALSE, "#"), YamlLine(">>>", "abc", "", FALSE, "#")}

ProgressLines ==
    {YamlLine("", "", "", TRUE, c) : c \in {"#", ""}}

YamlLines == TextLines \cup ProgressLines

RECURSIVE WidthLoop(_, _)
WidthLoop(lines, width) ==
    IF lines = <<>> THEN width
    ELSE LET line == Head(lines)
             magic_width == IF line.progress THEN TerminalColumns \div 4 ELSE 0
         IN  WidthLoop(Tail(lines),
                 Max(Max(Max(width, magic_width), Len(line.prompt)),
                     Max(Len(line.in) + CountSpaces(line.in),
                         Len(line.out) + CountSpaces(line.out))))

Codio_width(lines) == WidthLoop(lines, 0) + 4

\* the size without the extra row of a line with input and output
Codio_size_NoOutputRow(lines) == Len(lines) + 2

Codio_size(lines) ==
    Len(lines)
    + Cardinality({k \in 1..Len(lines) : lines[k].in # "" /\ lines[k].out # ""})
    + 2

\* the render_line built for one yaml line; a line with no prompt, input or
\* output yields nothing (continue)
RenderLine(yaml_line, width) ==
    IF yaml_line.progress
    THEN <<[prompt |-> "",
            in |-> Repeat(yaml_line.progressChar, (6 * width) \div 10),
            out |-> ""]>>
    ELSE IF yaml_line.prompt = "" /\ yaml_line.in = "" /\ yaml_line.out = ""
    THEN <<>>
    ELSE IF yaml_line.in = "" /\ yaml_line.out = ""
    THEN <<[prompt |-> "", in |-> "", out |-> yaml_line.prompt]>>
    ELSE <<[prompt |-> yaml_line.prompt, in |-> yaml_line.in, out |-> yaml_line.out]>>

RECURSIVE RenderLoop(_, _)
RenderLoop(lines, width) ==
    IF lines = <<>> THEN <<>>
    ELSE RenderLine(Head(lines), width) \o RenderLoop(Tail(lines), width)

Codio_render(lines) == RenderLoop(lines, Codio_width(lines))

-----------------------------------------------------------------------------
(* effects.Codio: the reveal engine *)

Codio_reset(c) ==
    [i \in 0..(Len(c) - 1) |-> [len |-> 0, start |-> FALSE, end |-> FALSE]]

PredecessorOpen_Start(st, i) == (i - 1) \in DOMAIN st /\ ~st[i - 1].start

\* self._state.get(i - 1) is not None and not self._state[i - 1]["end"]
PredecessorOpen(st, i) == (i - 1) \in DOMAIN st /\ ~st[i - 1].end

\* the state after the first statement of _get_code
MarkStart(st, i) ==
    IF (i - 1) \notin DOMAIN st THEN [st EXCEPT ![i].start = TRUE] ELSE st

Returned(st, inp, out) == [st |-> st, inp |-> inp, out |-> out, fell |-> FALSE]

InputLine_LateEnd(line, st, i) ==
    IF st[i].len = Len(line.in) + 1
    THEN Returned([st EXCEPT ![i].end = TRUE], Some(line.in), Some(line.out))
    ELSE IF PredecessorOpen(st, i)
    THEN Returned(st, NoneV, NoneV)
    ELSE Returned([st EXCEPT ![i].len = @ + 1], Some(Prefix(line.in, st[i].len)), NoneV)

\* _get_code, the branch of a line with input
InputLine(line, st, i) ==
    IF st[i].len = Len(line.in)
    THEN Returned([st EXCEPT ![i].end = TRUE], Some(line.in), Some(line.out))
    ELSE IF PredecessorOpen(st, i)
    THEN Returned(st, NoneV, NoneV)
    ELSE Returned([st EXCEPT ![i].len = @ + 1], Some(Prefix(line.in, st[i].len)), NoneV)

OutputLine_NoWait(line, st, i) ==
    Returned([st EXCEPT ![i].end = TRUE], NoneV, Some(line.out))

\* the branch without the assignment of end
OutputLine_NeverEnd(line, st, i) ==
    IF PredecessorOpen(st, i)
    THEN Returned(st, NoneV, NoneV)
    ELSE Returned(st, NoneV, Some(line.out))

\* _get_code, the branch of a line with output and no input
OutputLine(line, st, i) ==
    IF PredecessorOpen(st, i)
    THEN Returned(st, NoneV, NoneV)
    ELSE Returned([st EXCEPT ![i].end = TRUE], NoneV, Some(line.out))

\* _get_code(i): the new state, the returned pair, and whether the function
\* fell off its end (returned a bare None)
Codio_get_code(c, st0, i) ==
    LET st == MarkStart(st0, i)
        line == c[i + 1]
    IN  IF line.in # "" THEN InputLine(line, st, i)
        ELSE IF line.out # "" THEN OutputLine(line, st, i)
        ELSE [st |-> st, inp |-> NoneV, out |-> NoneV, fell |-> TRUE]

Writes_CodeOut(line, i, g) ==
    (IF ~g.inp.none
     THEN <<[line |-> i, kind |-> "in",
             text |-> IF line.prompt # ""
                      THEN line.prompt \o " " \o g.inp.text
                      ELSE g.inp.text]>>
     ELSE <<>>)
    \o
    (IF ~g.inp.none /\ line.out # ""
     THEN <<[line |-> i, kind |-> "out", text |-> line.out]>>
     ELSE <<>>)

\* the _write calls one loop iteration of _render_now makes, in order; the
\* k-th write of a frame goes to row y = k, column x = 1
Writes(line, i, g) ==
    (IF ~g.inp.none
     THEN <<[line |-> i, kind |-> "in",
             text |-> IF line.prompt # ""
                      THEN line.prompt \o " " \o g.inp.text
                      ELSE g.inp.text]>>
     ELSE <<>>)
    \o
    (IF ~g.out.none /\ g.out.text # ""
     THEN <<[line |-> i, kind |-> "out", text |-> g.out.text]>>
     ELSE <<>>)

RECURSIVE RenderNowLoop(_, _, _, _)
\* the for loop of _render_now from index i on; unpacking a bare None raises
\* TypeError and leaves the loop
RenderNowLoop(c, st, img, i) ==
    IF i >= Len(c) THEN [st |-> st, img |-> img, error |-> "none"]
    ELSE LET g == Codio_get_code(c, st, i)
         IN  IF g.fell
             THEN [st |-> g.st, img |-> img, error |-> "TypeError"]
             ELSE RenderNowLoop(c, g.st, img \o Writes(c[i + 1], i, g), i + 1)

\* rendered_text clears the image, then _render_now fills it
Codio_render_now(c, st) == RenderNowLoop(c, st, <<>>, 0)

-----------------------------------------------------------------------------
(* slideshow.Slide and slideshow.Slideshow: the playback loop *)

NumSlides == Len(code)

Renderers(s) == 1..Len(code[s + 1])

Running == loop # "stopped" /\ error = "none"

\* self.show.slides[k] with Python's negative indexing; -1 stands for IndexError
IndexError == -1

PyIndex(n, k) ==
    IF 0 <= k /\ k < n THEN k
    ELSE IF -n <= k /\ k < 0 THEN n + k
    ELSE IndexError

\* one animation tick of renderer r of the displayed slide
Render(r) ==
    /\ Running
    /\ scene < NumSlides
    /\ r \in Renderers(scene)
    /\ LET res == Codio_render_now(code[scene + 1][r], state[scene + 1][r])
       IN  /\ state' = [state EXCEPT ![scene + 1][r] = res.st]
           /\ image' = [image EXCEPT ![scene + 1][r] = res.img]
           /\ error' = res.error

Tick(r) ==
    /\ Render(r)
    /\ UNCHANGED <<obj, code, current_slide, scene, loop, slideVars, restVars>>

\* the frames of one renderer counted, up to TickCap; no key is pressed
LiveTick ==
    /\ ticks < TickCap
    /\ Render(1)
    /\ ticks' = ticks + 1
    /\ UNCHANGED <<obj, code, current_slide, scene, loop, slideVars, parseVars,
                   formatterVars, codioVars, renderVars, formatVars>>

Slide_reset_First(s) ==
    [state EXCEPT ![s + 1] =
        [r \in DOMAIN state[s + 1] |->
            IF r = 1 THEN Codio_reset(code[s + 1][r]) ELSE state[s + 1][r]]]

\* slideshow.Slide._reset of the scene showing slide s: every Codio renderer
\* among its effects is reset
Slide_reset(s) ==
    [state EXCEPT ![s + 1] =
        [r \in DOMAIN state[s + 1] |-> Codio_reset(code[s + 1][r])]]

\* process_event with key 'r'; the restart screen has no Codio effect
PressR ==
    /\ Running
    /\ state' = IF scene < NumSlides THEN Slide_reset(scene) ELSE state
    /\ UNCHANGED <<obj, code, image, current_slide, scene, loop, error, slideVars, restVars>>

\* the try block shared by the back and next branches of process_event:
\* screen.set_scenes([slides[current_slide]]) or IndexError, pass
SetScene(k) ==
    scene' = IF PyIndex(NumSlides, k) = IndexError THEN scene ELSE PyIndex(NumSlides, k)

\* process_event with 'b', left or page-up
PressBack ==
    /\ Running
    /\ current_slide > -(NumSlides + MaxOver)
    /\ current_slide' = current_slide - 1
    /\ SetScene(current_slide - 1)
    /\ UNCHANGED <<obj, code, state, image, loop, error, slideVars, restVars>>

\* process_event with space, 'n', right or page-down
PressNext ==
    /\ Running
    /\ current_slide < NumSlides + MaxOver
    /\ current_slide' = current_slide + 1
    /\ SetScene(current_slide + 1)
    /\ UNCHANGED <<obj, code, state, image, loop, error, slideVars, restVars>>

\* play: the test at the top of the outer loop
EnterRestartScreen ==
    /\ Running
    /\ loop = "outer"
    /\ current_slide = NumSlides
    /\ scene' = NumSlides
    /\ loop' = "inner"
    /\ UNCHANGED <<obj, code, state, image, current_slide, error, slideVars, restVars>>

\* play: the inner loop reads key 'r'
RestartShow ==
    /\ Running
    /\ loop = "inner"
    /\ current_slide' = 0
    /\ scene' = 0
    /\ loop' = "outer"
    /\ UNCHANGED <<obj, code, state, image, error, slideVars, restVars>>

\* play: the inner loop reads any other key, or the screen's default handler
\* reads 'q': StopApplication
Stop ==
    /\ Running
    /\ loop' = "stopped"
    /\ UNCHANGED <<obj, code, state, image, current_slide, scene, error, slideVars, restVars>>

-----------------------------------------------------------------------------
(* slide.Slide: the slide assembler and its style validator *)

EFFECTS == {"fireworks", "explosions", "stars", "matrix", "plasma"}

\* COLORS: the asciimatics colour code of each name
COLORS ==
    [n \in {"black", "red", "green", "yellow", "blue", "magenta", "cyan", "white"} |->
        CASE n = "black" -> 0 [] n = "red" -> 1 [] n = "green" -> 2
          [] n = "yellow" -> 3 [] n = "blue" -> 4 [] n = "magenta" -> 5
          [] n = "cyan" -> 6 [] n = "white" -> 7]

\* BlockHtml.style: the key=value pairs of the comment text. Values match \w+
\* and are never empty, so "" stands for a key the dict does not have
\* (style.get(key) is None); other says some further key is present.
Style(effect, fg, bg, other) == [effect |-> effect, fg |-> fg, bg |-> bg, other |-> other]

NoStyle == Style("", "", "", FALSE)

\* a Renderable as the assembler sees it, with the dataclass defaults fg = 0, bg = 7
Element(type, style) == [type |-> type, style |-> style, fg |-> 0, bg |-> 7]

\* the fields Slide.__init__ sets before it assigns elements
NewSlide ==
    [status |-> "ok", error |-> "",
     elements |-> <<>>, style |-> NoStyle,
     has_style |-> FALSE, has_effect |-> FALSE, has_image |-> FALSE,
     has_code |-> FALSE, has_codio |-> FALSE,
     effect |-> "", fg_color |-> 0, bg_color |-> 7]

Raise(sl, msg) == [sl EXCEPT !.status = "error", !.error = msg]

\* the for loop of the style setter over ("fg", "bg"); a KeyError becomes ValueError
SetColors(sl, style) ==
    LET a == IF style.fg = "" THEN sl
             ELSE IF style.fg \in DOMAIN COLORS
             THEN [sl EXCEPT !.fg_color = COLORS[style.fg]]
             ELSE Raise(sl, "Color is not supported")
    IN  IF a.status = "error" \/ style.bg = "" THEN a
        ELSE IF style.bg \in DOMAIN COLORS
        THEN [a EXCEPT !.bg_color = COLORS[style.bg]]
        ELSE Raise(a, "Color is not supported")

CheckCompatible_NoColorTest(sl, style) ==
    IF sl.has_effect /\ sl.has_code
    THEN Raise(sl, "Effects and code on the same slide are not supported")
    ELSE [sl EXCEPT !.style = style]

\* the two incompatibility tests and the final assignment of the style setter
CheckCompatible(sl, style) ==
    IF sl.has_effect /\ (style.fg # "" \/ style.bg # "")
    THEN Raise(sl, "Effects and colors on the same slide are not supported")
    ELSE IF sl.has_effect /\ sl.has_code
    THEN Raise(sl, "Effects and code on the same slide are not supported")
    ELSE [sl EXCEPT !.style = style]

Slide_style_CompatFirst(sl, style) ==
    IF style.effect # "" /\ style.effect \notin EFFECTS
    THEN Raise(sl, "Effect is not supported")
    ELSE LET a == IF style.effect # ""
                  THEN [sl EXCEPT !.has_effect = TRUE, !.effect = style.effect,
                                  !.fg_color = 7, !.bg_color = 0]
                  ELSE sl
             b == CheckCompatible(a, style)
         IN  IF b.status = "error" THEN b ELSE SetColors(b, style)

\* Slide.style setter
Slide_style(sl, style) ==
    IF style.effect # "" /\ style.effect \notin EFFECTS
    THEN Raise(sl, "Effect is not supported")
    ELSE LET a == IF style.effect # ""
                  THEN [sl EXCEPT !.has_effect = TRUE, !.effect = style.effect,
                                  !.fg_color = 7, !.bg_color = 0]
                  ELSE sl
             b == SetColors(a, style)
         IN  IF b.status = "error" THEN b ELSE CheckCompatible(b, style)

StyleGiven_KnownKeys(style) == style.effect # "" \/ style.fg # "" \/ style.bg # ""

\* if e.style: the dict is non-empty
StyleGiven(style) == style.effect # "" \/ style.fg # "" \/ style.bg # "" \/ style.other

RECURSIVE ElementsLoop(_, _, _)
\* the for loop of the elements setter: the slide and the renderable list so far
ElementsLoop(sl, es, renderable) ==
    IF es = <<>> \/ sl.status = "error" THEN [sl |-> sl, renderable |-> renderable]
    ELSE LET e == Head(es)
         IN  IF e.type = "code"
             THEN ElementsLoop([sl EXCEPT !.has_code = TRUE], Tail(es), Append(renderable, e))
             ELSE IF e.type = "codio"
             THEN ElementsLoop([sl EXCEPT !.has_codio = TRUE], Tail(es), Append(renderable, e))
             ELSE IF e.type = "html"
             THEN ElementsLoop(
                      IF StyleGiven(e.style)
                      THEN Slide_style([sl EXCEPT !.has_style = TRUE], e.style)
                      ELSE sl,
                      Tail(es), renderable)
             ELSE IF e.type = "image"
             THEN ElementsLoop([sl EXCEPT !.has_image = TRUE], Tail(es), Append(renderable, e))
             ELSE ElementsLoop(sl, Tail(es), Append(renderable, e))

\* the colour pass of the elements setter: for e in self.elements
Paint(sl, es) == [k \in DOMAIN es |-> [es[k] EXCEPT !.fg = sl.fg_color, !.bg = sl.bg_color]]

\* Slide.elements setter. The colour pass runs over self.elements, which is
\* the list the slide held before this assignment (the getter returns
\* self._elements); the renderable list then replaces that list.
Slide_elements(sl, es) ==
    LET l == ElementsLoop(sl, es, <<>>)
        painted == IF l.sl.has_effect
                   THEN [l.sl EXCEPT !.elements = Paint(l.sl, l.sl.elements)]
                   ELSE l.sl
    IN  IF l.sl.status = "error" THEN l.sl
        ELSE [painted EXCEPT !.elements = l.renderable]

\* Slide.__init__(elements)
Slide_init(es) == Slide_elements(NewSlide, es)

\* markdown.dump_slide builds the slide of a buffered element list
Construct ==
    /\ slide.status = "none"
    /\ slide' = Slide_init(elements)
    /\ UNCHANGED <<elements, showVars, restVars>>

Styles ==
    {Style(e, f, b, FALSE) : e \in {"", "stars", "bogus"}, f \in {"", "red", "puce"},
                             b \in {"", "blue"}}
    \cup {Style("", "", "", TRUE)}

ElementKinds ==
    {Element(t, NoStyle) : t \in {"code", "codio", "image", "paragraph"}}
    \cup {Element("html", st) : st \in Styles}

-----------------------------------------------------------------------------
(* markdown.Markdown.parse and slide.RenderableFactory *)

MaxNodes == 3       \* longest document drawn in SpecParse

\* utils.normalize_name: class names and node type names meet on one key
NormalizeName(name) ==
    CASE name \in {"Heading", "heading"} -> "heading"
      [] name \in {"List", "list"} -> "list"
      [] name \in {"BlockCode", "block_code"} -> "blockcode"
      [] name \in {"Codio", "codio"} -> "codio"
      [] name \in {"Image", "image"} -> "image"
      [] name \in {"BlockHtml", "block_html"} -> "blockhtml"
      [] name \in {"Text", "text"} -> "text"
      [] name \in {"Codespan", "codespan"} -> "codespan"
      [] name \in {"Strong", "strong"} -> "strong"
      [] name \in {"Emphasis", "emphasis"} -> "emphasis"
      [] name \in {"Link", "link"} -> "link"
      [] name \in {"Paragraph", "paragraph"} -> "paragraph"
      [] name \in {"BlockQuote", "block_quote"} -> "blockquote"
      [] OTHER -> name

\* the type field of each Renderable class
ClassType ==
    [k \in {"Heading", "List", "BlockCode", "Codio", "Image", "BlockHtml", "Text",
            "Codespan", "Strong", "Emphasis", "Link", "Paragraph", "BlockQuote"} |->
        CASE k = "Heading" -> "heading" [] k = "List" -> "list"
          [] k = "BlockCode" -> "code" [] k = "Codio" -> "codio"
          [] k = "Image" -> "image" [] k = "BlockHtml" -> "html"
          [] k = "Text" -> "text" [] k = "Codespan" -> "codespan"
          [] k = "Strong" -> "strong" [] k = "Emphasis" -> "emphasis"
          [] k = "Link" -> "link" [] k = "Paragraph" -> "paragraph"
          [] k = "BlockQuote" -> "quote"]

\* RenderableFactory.RENDER_CLASSES: normalized class name -> class
RENDER_CLASSES == {<<NormalizeName(k), k>> : k \in DOMAIN ClassType}

HasClass(name) == \E p \in RENDER_CLASSES : p[1] = NormalizeName(name)

\* RenderableFactory.create(name, obj), for a name that has a class
Factory_create(name, node) ==
    LET class == (CHOOSE p \in RENDER_CLASSES : p[1] = NormalizeName(name))[2]
    IN  Element(ClassType[class], node.style)

\* a document node; children and style are read for paragraph and block_html
Node(type, children, style) == [type |-> type, children |-> children, style |-> style]

\* an inline node; src_exists says whether the file image["src"] names exists
Inline(type, alt, src_exists) == [type |-> type, alt |-> alt, src_exists |-> src_exists]

\* Image(obj=image): Renderable's generated __init__ runs, which was built
\* without a __post_init__ call; the dataclass(init=False) subclass adds none
Image_new(child) ==
    [type |-> "image", style |-> NoStyle, fg |-> 0, bg |-> 7,
     src_exists |-> child.src_exists]

RECURSIVE ImagesLoop(_, _)
\* the loop over the image children of a paragraph: the elements appended,
\* or the error of open() on a missing transcript file
ImagesLoop(images, out) ==
    IF images = <<>> THEN [status |-> "ok", out |-> out]
    ELSE LET image_ == Head(images)
         IN  IF image_.alt = "codio"
             THEN IF image_.src_exists
                  THEN ImagesLoop(Tail(images), Append(out, Element("codio", NoStyle)))
                  ELSE [status |-> "error", error |-> "FileNotFoundError"]
             ELSE ImagesLoop(Tail(images), Append(out, Image_new(image_)))

\* dump_slide: the slides and the buffer after it ran
dump_slide(p) ==
    IF p.bufr = <<>> THEN p
    ELSE LET sl == Slide_init(p.bufr)
         IN  IF sl.status = "error"
             THEN [p EXCEPT !.status = "error", !.error = "ValueError"]
             ELSE [p EXCEPT !.slides = Append(@, sl), !.bufr = <<>>]

RECURSIVE ParseLoop(_, _)
\* the for loop of parse over the nodes of ast
ParseLoop(ast, p) ==
    IF ast = <<>> \/ p.status = "error" THEN p
    ELSE LET node == Head(ast)
         IN  IF node.type = "newline" THEN ParseLoop(Tail(ast), p)
             ELSE IF node.type = "thematic_break" THEN ParseLoop(Tail(ast), dump_slide(p))
             ELSE IF node.type = "paragraph"
             THEN LET images == SelectSeq(node.children, LAMBDA c : c.type = "image")
                      not_images == SelectSeq(node.children, LAMBDA c : c.type # "image")
                      l == ImagesLoop(images, p.bufr)
                  IN  IF l.status = "error"
                      THEN [p EXCEPT !.status = "error", !.error = l.error]
                      ELSE ParseLoop(Tail(ast),
                               [p EXCEPT !.bufr = Append(l.out,
                                   [type |-> "paragraph", style |-> NoStyle,
                                    fg |-> 0, bg |-> 7, children |-> not_images])])
             ELSE IF HasClass(node.type)
             THEN ParseLoop(Tail(ast),
                      [p EXCEPT !.bufr = Append(@, Factory_create(node.type, node))])
             ELSE [p EXCEPT !.status = "error", !.error = "KeyError"]

\* Markdown.parse on the node list ast: the slides returned, or the exception
Markdown_parse(ast) ==
    LET p == ParseLoop(ast, [status |-> "ok", error |-> "", slides |-> <<>>, bufr |-> <<>>])
        q == IF p.status = "error" THEN p ELSE dump_slide(p)
    IN  IF q.status = "error"
        THEN [status |-> "error", error |-> q.error]
        ELSE [status |-> "ok", slides |-> q.slides]

Parse ==
    /\ parsed.status = "none"
    /\ parsed' = Markdown_parse(document)
    /\ UNCHANGED <<document, showVars, slideVars, formatterVars, codioVars, moreVars>>

Paragraphs ==
    {Node("paragraph", <<c>>, NoStyle) :
        c \in {Inline("text", "", TRUE), Inline("footnote_ref", "", TRUE)}
              \cup {Inline("image", a, x) : a \in {"", "codio"}, x \in BOOLEAN}}

DocNodes ==
    {Node(t, <<>>, NoStyle) : t \in {"newline", "thematic_break", "heading",
                                      "block_code", "footnotes"}}
    \cup {Node("block_html", <<>>, st) : st \in {NoStyle, Style("stars", "", "", FALSE)}}
    \cup Paragraphs

-----------------------------------------------------------------------------
(* dynamic_formatter.DynamicFormatter *)

\* pygments token types by name; "None" is the parent attribute of the root
TokenTypes == {"Token", "Name", "Name.Function", "Name.Function.Magic", "Keyword"}

\* ttype.parent
Parent(ttype) ==
    CASE ttype = "Token" -> "None"
      [] ttype = "Name" -> "Token"
      [] ttype = "Name.Function" -> "Name"
      [] ttype = "Name.Function.Magic" -> "Name.Function"
      [] ttype = "Keyword" -> "Token"

\* ASCIIMATIC_COLORS on these types: white Token, green Name.Function, blue Keyword
ASCIIMATIC_COLORS == [t \in {"Token", "Name.Function", "Keyword"} |->
    CASE t = "Token" -> 7 [] t = "Name.Function" -> 2 [] t = "Keyword" -> 4]

\* a Python value that may be None, for values that are not strings
Absent == [none |-> TRUE]

Present(v) == [none |-> FALSE, v |-> v]

\* dict.get(key): the value, or None
Get(dict, key) == IF key \in DOMAIN dict THEN Present(dict[key]) ELSE Absent

\* options.get("colorscheme", None) or ASCIIMATIC_COLORS: None and {} are falsy;
\* linenos is options.get("linenos", False), here for no linenos option
DynamicFormatter_init(colorscheme) ==
    [status |-> "ok",
     linenos |-> FALSE,
     colorscheme |-> IF colorscheme.none \/ DOMAIN colorscheme.v = {}
                     THEN ASCIIMATIC_COLORS ELSE colorscheme.v]

RECURSIVE GetColorLoop_Falsy(_, _, _)
\* the loop written as `while not color`
GetColorLoop_Falsy(colorscheme, ttype, hops) ==
    LET color == Get(colorscheme, ttype)
    IN  IF ~color.none /\ color.v # 0
        THEN [status |-> "ok", color |-> color.v, hops |-> hops]
        ELSE IF ttype = "None"
             THEN [status |-> "error", error |-> "AttributeError", hops |-> hops]
             ELSE GetColorLoop_Falsy(colorscheme, Parent(ttype), hops + 1)

RECURSIVE GetColorLoop(_, _, _)
\* while color is None: ttype = ttype.parent; color = colorscheme.get(ttype).
\* hops counts the parent steps; None has no parent attribute
GetColorLoop(colorscheme, ttype, hops) ==
    LET color == Get(colorscheme, ttype)
    IN  IF ~color.none
        THEN [status |-> "ok", color |-> color.v, hops |-> hops]
        ELSE IF ttype = "None"
             THEN [status |-> "error", error |-> "AttributeError", hops |-> hops]
             ELSE GetColorLoop(colorscheme, Parent(ttype), hops + 1)

\* DynamicFormatter._get_color(ttype)
get_color(f, ttype) == GetColorLoop(f.colorscheme, ttype, 0)

NewFormatter ==
    /\ formatter.status = "options"
    /\ formatter' = DynamicFormatter_init(formatter.colorscheme)
    /\ UNCHANGED <<lookup, showVars, slideVars, parseVars, codioVars, moreVars>>

GetColor(ttype) ==
    /\ formatter.status = "ok"
    /\ lookup' = [ttype |-> ttype] @@ get_color(formatter, ttype)
    /\ UNCHANGED <<formatter, showVars, slideVars, parseVars, codioVars, moreVars>>

\* colour tables: any subset of the token types, black (0) and green (2) entries
ColorSchemes ==
    UNION {[D -> {0, 2}] : D \in SUBSET TokenTypes}

-----------------------------------------------------------------------------
(* slide.Codio as an element, and effects.codio *)

MaxOverSpeed == 2   \* how far the speeds drawn reach below 1 and above 10

\* the property with the clamp left out
Codio_speed_NoClamp(element) ==
    LET speed == IF element.speed.none THEN 5 ELSE element.speed.v
    IN  11 - speed

\* Codio.speed: obj.get("speed", 5), clamped to 1..10, inverted
Codio_speed(element) ==
    LET speed == IF element.speed.none THEN 5 ELSE element.speed.v
        clamped == IF speed < 1 THEN 1 ELSE IF speed > 10 THEN 10 ELSE speed
    IN  11 - clamped

\* effects.codio(screen, element, row): the renderer and the speed given to Print
Effects_codio ==
    /\ codio.status = "element"
    /\ printed.status = "none"
    /\ printed' = [status |-> "ok",
                   code |-> Codio_render(codio.lines),
                   width |-> Codio_width(codio.lines),
                   height |-> Codio_size(codio.lines),
                   speed |-> Codio_speed(codio)]
    /\ UNCHANGED <<codio, showVars, slideVars, parseVars, formatterVars, moreVars>>

\* the speed key of a transcript: absent, or an integer
Speeds == {Absent} \cup {Present(v) : v \in (1 - MaxOverSpeed)..(10 + MaxOverSpeed)}

-----------------------------------------------------------------------------
(* slide.Heading and effects.base *)

MaxLevel == 4       \* deepest heading level drawn in SpecHeading

\* the attr argument: 0 by default, or one of the values of effects.ATTRS
ATTRS == {"bold", "normal", "reverse", "underline"}

\* Heading.size for the levels below 1 (level 1 is drawn by Figlet)
Heading_size(h) == IF h.level = 2 THEN 2 ELSE 1

\* Heading.render as the rows of the string it returns ("\n".join)
Heading_render(h) ==
    IF h.level = 2 THEN <<h.text, Repeat("-", Len(h.text))>> ELSE <<h.text>>

\* Heading.as_print_list(screen, row, attr=attr)
Heading_as_print_list(h, attr) ==
    [status |-> "ok", via |-> "as_print_list",
     size |-> Heading_size(h),
     text |-> Heading_render(h),
     attr |-> IF h.level = 3 THEN "bold" ELSE attr]

\* effects.base(screen, element, row, fg_color, bg_color, attr) on a heading
base(h, attr) ==
    [status |-> "ok", via |-> "base",
     size |-> Heading_size(h),
     text |-> Heading_render(h),
     attr |-> IF h.type = "heading" /\ h.level = 3 THEN "bold" ELSE attr]

PrintHeading ==
    /\ printable.status = "heading"
    /\ rendered.status = "none"
    /\ rendered' = Heading_as_print_list(printable, printable.attr)
    /\ UNCHANGED <<printable, formatVars, clockVars, showVars, slideVars, parseVars,
                   formatterVars, codioVars>>

BaseHeading ==
    /\ printable.status = "heading"
    /\ rendered.status = "none"
    /\ rendered' = base(printable, printable.attr)
    /\ UNCHANGED <<printable, formatVars, clockVars, showVars, slideVars, parseVars,
                   formatterVars, codioVars>>

HeadingTexts == {"", "a", "Hi", "abc"}

-----------------------------------------------------------------------------
(* slide.BlockCode *)

MaxCode == 4        \* longest code text drawn in SpecCode, in characters

RECURSIVE SplitLoop(_, _, _, _)
\* scan s from position i: cur is the line being read, out the lines read
SplitLoop(s, i, cur, out) ==
    IF i > Len(s) THEN (IF cur = "" THEN out ELSE Append(out, cur))
    ELSE IF SubSeq(s, i, i) = "\n" THEN SplitLoop(s, i + 1, "", Append(out, cur))
    ELSE SplitLoop(s, i + 1, cur \o SubSeq(s, i, i), out)

\* str.splitlines(): a final line break opens no further line
Splitlines(s) == SplitLoop(s, 1, "", <<>>)

RECURSIVE Join(_)
\* "\n".join(lines)
Join(lines) ==
    IF lines = <<>> THEN ""
    ELSE IF Len(lines) = 1 THEN lines[1]
    ELSE lines[1] \o "\n" \o Join(Tail(lines))

\* str.ljust(width) with the fill " "
Ljust(line, width) ==
    IF Len(line) >= width THEN line ELSE line \o Repeat(" ", width - Len(line))

RECURSIVE MaxLen(_)
\* max(len(line) for line in lines), for at least one line
MaxLen(lines) ==
    IF Len(lines) = 1 THEN Len(lines[1]) ELSE Max(Len(lines[1]), MaxLen(Tail(lines)))

\* pad with ljust(max_len), one column short
BlockCode_pad_Narrow(text) ==
    LET lines == Splitlines(text)
    IN  IF lines = <<>> THEN [status |-> "error", error |-> "ValueError"]
        ELSE LET max_len == MaxLen(lines)
                 top == Repeat(" ", max_len + 2)
                 body == [k \in 1..Len(lines) |-> " " \o Ljust(lines[k], max_len)]
             IN  [status |-> "ok", text |-> Join(<<top>> \o body \o <<top>>)]

\* BlockCode.pad(s): max() of no lines raises ValueError
BlockCode_pad(text) ==
    LET lines == Splitlines(text)
    IN  IF lines = <<>> THEN [status |-> "error", error |-> "ValueError"]
        ELSE LET max_len == MaxLen(lines)
                 top == Repeat(" ", max_len + 2)
                 body == [k \in 1..Len(lines) |-> " " \o Ljust(lines[k], max_len + 1)]
             IN  [status |-> "ok", text |-> Join(<<top>> \o body \o <<top>>)]

\* BlockCode.size
BlockCode_size(text) == Len(Splitlines(text))

\* BlockCode.render without a language tag: _highlight_code returns the code
BlockCode_render(text) == BlockCode_pad(text)

\* the size and the render of a code block, as effects.code reads them
PrintCode ==
    /\ printable.status = "code"
    /\ rendered.status = "none"
    /\ rendered' = [size |-> BlockCode_size(printable.text)] @@ BlockCode_render(printable.text)
    /\ UNCHANGED <<printable, formatVars, clockVars, showVars, slideVars, parseVars,
                   formatterVars, codioVars>>

RECURSIVE Strings(_, _)
\* the strings of exactly n characters over an alphabet
Strings(alphabet, n) ==
    IF n = 0 THEN {""} ELSE {t \o c : t \in Strings(alphabet, n - 1), c \in alphabet}

CodeTexts ==
    UNION {Strings({"a", " ", "\n"}, n) : n \in 0..MaxCode} \cup {"a\nbb\nccc"}

-----------------------------------------------------------------------------
(* dynamic_formatter.DynamicFormatter.format_unencoded *)

MaxTokens == 2      \* longest token source drawn in SpecFormat

RECURSIVE SplitKeepLoop(_, _, _, _)
\* scan s from position i, keeping each line break at the end of its line
SplitKeepLoop(s, i, cur, out) ==
    IF i > Len(s) THEN (IF cur = "" THEN out ELSE Append(out, cur))
    ELSE IF SubSeq(s, i, i) = "\n"
         THEN SplitKeepLoop(s, i + 1, "", Append(out, cur \o "\n"))
         ELSE SplitKeepLoop(s, i + 1, cur \o SubSeq(s, i, i), out)

\* value.splitlines(), which drops the line breaks
SplitlinesKeep_Drop(s) == Splitlines(s)

\* value.splitlines(True)
SplitlinesKeep(s) == SplitKeepLoop(s, 1, "", <<>>)

\* line.endswith("\n")
EndsWithNewline(line) == Len(line) >= 1 /\ SubSeq(line, Len(line), Len(line)) = "\n"

\* str(lineno).zfill(2)
Zfill2(lineno) ==
    LET digits == ToString(lineno)
    IN  IF Len(digits) < 2 THEN "0" \o digits ELSE digits

\* DynamicCharacter(text=...): color defaults to white. kind and token
\* record where the cell came from: a line number, or a fragment of token k
LinenoCell(lineno) == [kind |-> "lineno", text |-> Zfill2(lineno), color |-> 7, token |-> 0]

TextCell(line, color, k) == [kind |-> "text", text |-> line, color |-> color, token |-> k]

\* append_lineo()
append_lineo(f, w) ==
    IF f.linenos THEN [w EXCEPT !.characters = Append(@, LinenoCell(w.lineno))] ELSE w

RECURSIVE LinesLoop(_, _, _, _, _)
\* for line in value.splitlines(True)
LinesLoop(f, lines, color, k, w) ==
    IF lines = <<>> THEN w
    ELSE LET line == Head(lines)
             w1 == [w EXCEPT !.characters = Append(@, TextCell(line, color, k))]
             w2 == IF EndsWithNewline(line)
                   THEN append_lineo(f, [w1 EXCEPT !.lineno = @ + 1])
                   ELSE w1
         IN  LinesLoop(f, Tail(lines), color, k, w2)

RECURSIVE TokensLoop(_, _, _, _)
\* for ttype, value in tokensource; an exception of _get_color ends the call
TokensLoop(f, source, k, w) ==
    IF k > Len(source) THEN w
    ELSE LET c == get_color(f, source[k].ttype)
         IN  IF c.status = "error"
             THEN [status |-> "error", error |-> c.error]
             ELSE TokensLoop(f, source, k + 1,
                      LinesLoop(f, SplitlinesKeep(source[k].value), c.color, k, w))

\* format_unencoded(tokensource, outfile): the cells dumped to outfile
format_unencoded(f, source) ==
    TokensLoop(f, source, 1,
        append_lineo(f, [status |-> "ok", lineno |-> 0, characters |-> <<>>]))

Format ==
    /\ formatter.status = "ok"
    /\ outfile.status = "none"
    /\ outfile' = format_unencoded(formatter, tokensource)
    /\ UNCHANGED <<tokensource, renderVars, clockVars, formatterVars, showVars,
                   slideVars, parseVars, codioVars>>

\* token texts: empty, within a line, ending a line, spanning lines
TokenValues == {"", "a", "\n", "a\n", "a\nb", "\n\n"}

Tokens == {[ttype |-> t, value |-> v] : t \in {"Name.Function", "Keyword"}, v \in TokenValues}

\* colour tables of the formatters drawn: the default, one with a root entry,
\* one without
FormatSchemes ==
    {ASCIIMATIC_COLORS,
     [t \in {"Token", "Name"} |-> IF t = "Token" THEN 0 ELSE 2],
     [t \in {"Name"} |-> 2]}

-----------------------------------------------------------------------------
(* Initial states *)

\* the state of the playback loop once play has built the scenes from a
\* list of slides, each given as the list of its transcript definitions
ShowInit(show) ==
    /\ obj = show
    /\ code = [s \in DOMAIN show |-> [r \in DOMAIN show[s] |-> Codio_render(show[s][r])]]
    /\ state = [s \in DOMAIN show |->
                  [r \in DOMAIN show[s] |-> Codio_reset(Codio_render(show[s][r]))]]
    /\ image = [s \in DOMAIN show |-> [r \in DOMAIN show[s] |-> <<>>]]
    /\ current_slide = 0
    /\ scene = 0
    /\ loop = "outer"
    /\ error = "none"

NoSlide == [status |-> "none"]

NoParse == [status |-> "none"]

NoFormatter == [status |-> "none"]

NoLookup == [status |-> "none"]

NoCodio == [status |-> "none"]

\* nothing parsed, no formatter built, no transcript element measured
NoRender == [status |-> "none"]

NoFormat == [status |-> "none"]

MoreIdle ==
    /\ printable = NoRender
    /\ rendered = NoRender
    /\ tokensource = <<>>
    /\ outfile = NoFormat
    /\ ticks = 0

\* nothing parsed, no formatter, no transcript element
OtherIdle ==
    /\ document = <<>>
    /\ parsed = NoParse
    /\ formatter = NoFormatter
    /\ lookup = NoLookup
    /\ codio = NoCodio
    /\ printed = NoCodio

RestIdle == OtherIdle /\ MoreIdle

Transcripts(n) == UNION {[1..k -> YamlLines] : k \in 1..n}

\* one slide holding one transcript element
InitReveal ==
    /\ \E lines \in Transcripts(MaxLines) : ShowInit(<<<<lines>>>>)
    /\ elements = <<>>
    /\ slide = NoSlide
    /\ RestIdle

T1 == <<YamlLine("", "a", "1", FALSE, "#"), YamlLine("", "bb", "2", FALSE, "#")>>

T2 == <<YamlLine("", "", "ok", FALSE, "#"), YamlLine("$", "c", "", FALSE, "#")>>

\* slides given by their transcript elements; a slide without any is plain text
TextSlide == <<>>

Shows ==
    {<<<<T1>>>>,
     <<<<T1>>, TextSlide>>,
     <<<<T2>>, <<T1>>>>,
     <<<<T1, T2>>, TextSlide, <<T2>>>>}

Init ==
    /\ \E show \in Shows : ShowInit(show)
    /\ elements = <<>>
    /\ slide = NoSlide
    /\ RestIdle

Next ==
    \/ \E r \in 1..2 : Tick(r)
    \/ PressR
    \/ PressBack
    \/ PressNext
    \/ EnterRestartScreen
    \/ RestartShow
    \/ Stop

Spec == Init /\ [][Next]_vars

\* an element list buffered by the parser, up to MaxElements long
InitSlide ==
    /\ ShowInit(<<TextSlide>>)
    /\ elements \in UNION {[1..n -> ElementKinds] : n \in 0..MaxElements}
    /\ slide = NoSlide
    /\ RestIdle

NextSlide == Construct

SpecSlide == InitSlide /\ [][NextSlide]_vars

\* a document of up to MaxNodes nodes
InitParse ==
    /\ ShowInit(<<TextSlide>>)
    /\ elements = <<>>
    /\ slide = NoSlide
    /\ document \in UNION {[1..n -> DocNodes] : n \in 0..MaxNodes}
    /\ parsed = NoParse
    /\ formatter = NoFormatter
    /\ lookup = NoLookup
    /\ codio = NoCodio
    /\ printed = NoCodio
    /\ MoreIdle

NextParse == Parse

SpecParse == InitParse /\ [][NextParse]_vars

\* the colorscheme option of a formatter about to be built: absent, or a table
InitFormatter ==
    /\ ShowInit(<<TextSlide>>)
    /\ elements = <<>>
    /\ slide = NoSlide
    /\ document = <<>>
    /\ parsed = NoParse
    /\ formatter \in {[status |-> "options", colorscheme |-> c] :
                            c \in {Absent} \cup {Present(t) : t \in ColorSchemes}}
    /\ lookup = NoLookup
    /\ codio = NoCodio
    /\ printed = NoCodio
    /\ MoreIdle

NextFormatter == NewFormatter \/ \E ttype \in TokenTypes : GetColor(ttype)

SpecFormatter == InitFormatter /\ [][NextFormatter]_vars

\* a transcript element of one line with any speed
InitCodio ==
    /\ ShowInit(<<TextSlide>>)
    /\ elements = <<>>
    /\ slide = NoSlide
    /\ document = <<>>
    /\ parsed = NoParse
    /\ formatter = NoFormatter
    /\ lookup = NoLookup
    /\ codio \in {[status |-> "element", lines |-> l, speed |-> v] :
                       l \in Transcripts(1), v \in Speeds}
    /\ printed = NoCodio
    /\ MoreIdle

NextCodio == Effects_codio

SpecCodio == InitCodio /\ [][NextCodio]_vars

\* a heading of level 2 or deeper and the attribute its caller passes
InitHeading ==
    /\ ShowInit(<<TextSlide>>)
    /\ elements = <<>>
    /\ slide = NoSlide
    /\ OtherIdle
    /\ printable \in {[status |-> "heading", type |-> "heading", level |-> l,
                        text |-> t, attr |-> at] :
                           l \in 2..MaxLevel, t \in HeadingTexts, at \in {"0"} \cup ATTRS}
    /\ rendered = NoRender
    /\ tokensource = <<>>
    /\ outfile = NoFormat
    /\ ticks = 0

NextHeading == PrintHeading \/ BaseHeading

SpecHeading == InitHeading /\ [][NextHeading]_vars

\* a code block without a language tag
InitCode ==
    /\ ShowInit(<<TextSlide>>)
    /\ elements = <<>>
    /\ slide = NoSlide
    /\ OtherIdle
    /\ printable \in {[status |-> "code", type |-> "code", text |-> t] : t \in CodeTexts}
    /\ rendered = NoRender
    /\ tokensource = <<>>
    /\ outfile = NoFormat
    /\ ticks = 0

NextCode == PrintCode

SpecCode == InitCode /\ [][NextCode]_vars

\* a formatter built with a colour table and the linenos option, and a token source
InitFormat ==
    /\ ShowInit(<<TextSlide>>)
    /\ elements = <<>>
    /\ slide = NoSlide
    /\ document = <<>>
    /\ parsed = NoParse
    /\ formatter \in {[DynamicFormatter_init(Present(c)) EXCEPT !.linenos = b] :
                           c \in FormatSchemes, b \in BOOLEAN}
    /\ lookup = NoLookup
    /\ codio = NoCodio
    /\ printed = NoCodio
    /\ printable = NoRender
    /\ rendered = NoRender
    /\ tokensource \in UNION {[1..n -> Tokens] : n \in 0..MaxTokens}
    /\ outfile = NoFormat
    /\ ticks = 0

NextFormat == Format

SpecFormat == InitFormat /\ [][NextFormat]_vars

NextReveal ==
    \/ Tick(1)
    \/ PressR

SpecReveal == InitReveal /\ [][NextReveal]_vars

\* transcript lines with and without prompt, input and output
LiveLines ==
    {YamlLine(p, i, o, FALSE, "#") : p \in {"", "$"}, i \in {"", "bb"}, o \in {"", "1"}}

\* one slide holding one transcript element, just built
InitLive ==
    /\ \E lines \in UNION {[1..k -> LiveLines] : k \in 1..MaxLines} : ShowInit(<<<<lines>>>>)
    /\ elements = <<>>
    /\ slide = NoSlide
    /\ RestIdle

\* the renderer of one transcript drawn frame after frame by Slideshow.play
NextLive == LiveTick

SpecLive == InitLive /\ [][NextLive]_vars /\ WF_vars(LiveTick)

-----------------------------------------------------------------------------
(* Properties of the reveal engine *)

Slides == DOMAIN state

Elems(s) == DOMAIN state[s]

LineIdx(s, r) == DOMAIN state[s][r]

\* the row _render_now writes for the input of a line
InText(line, inp) == IF line.prompt # "" THEN line.prompt \o " " \o inp ELSE inp

HasWrite(img, i, kind, text) ==
    \E k \in 1..Len(img) : img[k] = [line |-> i, kind |-> kind, text |-> text]

HasKind(img, i, kind) ==
    \E k \in 1..Len(img) : img[k].line = i /\ img[k].kind = kind

Displayed(img, i) == \E k \in 1..Len(img) : img[k].line = i

\* a tick of some renderer of the displayed slide satisfies P(s, r)
OnTick(P(_, _)) == \A r \in 1..2 : Tick(r) => P(scene + 1, r)

\* C1: strict ordering. In every reachable state, a line i >= 1 that has
\* revealed anything (len > 0) or is complete (end) has a complete predecessor.
C1_StrictOrdering ==
    \A s \in Slides : \A r \in Elems(s) : \A i \in LineIdx(s, r) :
        (i >= 1 /\ (state[s][r][i].len > 0 \/ state[s][r][i].end))
            => state[s][r][i - 1].end

C1_Witness ==
    \E s \in Slides : \E r \in Elems(s) : \E i \in LineIdx(s, r) :
        /\ i >= 1
        /\ state[s][r][i].len > 0
        /\ ~state[s][r][i].end
        /\ state[s][r][i - 1].end

Example == <<[prompt |-> "", in |-> "a", out |-> "1"],
             [prompt |-> "", in |-> "bb", out |-> "2"]>>

C2_Step(s, r) ==
    /\ \A i \in LineIdx(s, r) :
        LET line == code[s][r][i + 1]
            old == state[s][r][i]
            new == state'[s][r][i]
        IN  line.in # "" =>
            /\ (old.len < Len(line.in) /\ (i = 0 \/ state'[s][r][i - 1].end))
                    => new.len = old.len + 1
            /\ new.len = old.len + 1 =>
                    /\ ~new.end
                    /\ HasWrite(image'[s][r], i, "in", InText(line, Prefix(line.in, old.len)))
                    /\ ~HasKind(image'[s][r], i, "out")
            /\ (old.len = Len(line.in)) =>
                    /\ new.end
                    /\ new.len = old.len
                    /\ HasWrite(image'[s][r], i, "in", InText(line, line.in))
                    /\ line.out # "" => HasWrite(image'[s][r], i, "out", line.out)
    /\ (code[s][r] = Example /\ state[s][r] = Codio_reset(Example)) =>
            /\ state'[s][r][0].len = 1
            /\ ~state'[s][r][0].end
            /\ image'[s][r] = <<[line |-> 0, kind |-> "in", text |-> ""]>>
    /\ (code[s][r] = Example /\ state[s][r][0].len = 1 /\ ~state[s][r][0].end) =>
            /\ state'[s][r][0].end
            /\ image'[s][r] = <<[line |-> 0, kind |-> "in", text |-> "a"],
                                [line |-> 0, kind |-> "out", text |-> "1"],
                                [line |-> 1, kind |-> "in", text |-> ""]>>

\* C2 (amended): reveal timing. A tick on which a line with input of length n
\* is eligible (len < n, predecessor complete) writes input[:len] for the len
\* the tick started with, withholds the output and then increments len by
\* one; the line becomes complete on the first tick that starts with len = n,
\* and that frame writes the full input and the output. For the transcript
\* [{in:"a",out:"1"}, {in:"bb",out:"2"}] the first tick from the reset state
\* writes "" for line 0 and leaves it incomplete with len = 1; the second tick
\* completes it and writes "a" and "1".
C2_RevealTiming == [][OnTick(C2_Step)]_vars

C2_Witness ==
    /\ code[1][1] = Example
    /\ state[1][1][0].end
    /\ state[1][1][1].len = 1
    /\ HasWrite(image[1][1], 0, "out", "1")

C2_OriginalStep(s, r) ==
    /\ \A i \in LineIdx(s, r) :
        LET line == code[s][r][i + 1]
            old == state[s][r][i]
            new == state'[s][r][i]
        IN  (line.in # "" /\ new.len = old.len + 1) =>
            /\ HasWrite(image'[s][r], i, "in", InText(line, Prefix(line.in, new.len)))
            /\ new.len = Len(line.in) =>
                    /\ new.end
                    /\ line.out # "" => HasWrite(image'[s][r], i, "out", line.out)
    /\ (code[s][r] = Example /\ state[s][r] = Codio_reset(Example)) =>
            /\ state'[s][r][0].end
            /\ HasWrite(image'[s][r], 0, "in", "a")
            /\ HasWrite(image'[s][r], 0, "out", "1")

\* C2 as stated: the frame of an incrementing tick shows input[:len] for the
\* incremented len, the line is complete on the tick at which len reaches n,
\* and the example's line 0 is complete after one tick.
C2_Original == [][OnTick(C2_OriginalStep)]_vars

C3_Step(s, r) ==
    \A i \in LineIdx(s, r) :
        LET line == code[s][r][i + 1]
            old == state[s][r][i]
            new == state'[s][r][i]
        IN  line.in # "" =>
            /\ new.len >= old.len
            /\ new.len <= Len(line.in)
            /\ old.end => new.end

\* C3: reveal monotonicity. Across a tick, for every line with non-empty
\* input, len does not decrease and does not exceed len(input), and a
\* complete line stays complete.
C3_Monotonic == [][OnTick(C3_Step)]_vars

C3_Witness ==
    \E s \in Slides : \E r \in Elems(s) : \E i \in LineIdx(s, r) :
        /\ code[s][r][i + 1].in = "bb"
        /\ state[s][r][i].len = 2
        /\ state[s][r][i].end

C4_Step(s, r) ==
    \A i \in LineIdx(s, r) :
        LET line == code[s][r][i + 1]
        IN  line.in # "" =>
            /\ HasKind(image'[s][r], i, "out")
                    => HasWrite(image'[s][r], i, "in", InText(line, line.in))
            /\ (state[s][r][i].end \/ state'[s][r][i].end) =>
                    /\ HasWrite(image'[s][r], i, "in", InText(line, line.in))
                    /\ line.out # "" => HasWrite(image'[s][r], i, "out", line.out)

\* C4: output is withheld. On every tick, the output of a line with
\* non-empty input is written only if its full input is written in the same
\* frame, and a line that was complete before the tick, or completes in it,
\* has its full input and its output written by the tick.
C4_OutputWithheld == [][OnTick(C4_Step)]_vars

C4_Witness ==
    \E s \in Slides : \E r \in Elems(s) : \E i \in LineIdx(s, r) :
        LET line == code[s][r][i + 1]
        IN  /\ line.in # "" /\ line.out # ""
            /\ state[s][r][i].end
            /\ HasWrite(image[s][r], i, "in", InText(line, line.in))
            /\ HasWrite(image[s][r], i, "out", line.out)

C5_Step(s, r) ==
    \A i \in LineIdx(s, r) :
        LET line == code[s][r][i + 1]
        IN  (line.in = "" /\ line.out # "") =>
            IF i = 0 \/ state'[s][r][i - 1].end
            THEN /\ state'[s][r][i].end
                 /\ state'[s][r][i].len = 0
                 /\ HasWrite(image'[s][r], i, "out", line.out)
                 /\ ~HasKind(image'[s][r], i, "in")
            ELSE /\ ~state'[s][r][i].end
                 /\ ~Displayed(image'[s][r], i)

\* C5: output-only lines. After every tick, a line with empty input and
\* non-empty output is complete with its whole output written in that frame
\* exactly when it is line 0 or its predecessor is complete after the tick;
\* otherwise it is pending and nothing of it is written. Its len stays 0.
C5_OutputOnly == [][OnTick(C5_Step)]_vars

C5_Witness ==
    \E s \in Slides : \E r \in Elems(s) : \E i \in LineIdx(s, r) :
        LET line == code[s][r][i + 1]
        IN  /\ i >= 1
            /\ line.in = "" /\ line.out # ""
            /\ code[s][r][i].in # ""
            /\ state[s][r][i].end
            /\ HasWrite(image[s][r], i, "out", line.out)

\* the state _reset gives every line
Pending == [len |-> 0, start |-> FALSE, end |-> FALSE]

AllPending(st) == \A r \in DOMAIN st : \A i \in DOMAIN st[r] : st[r][i] = Pending

\* C6: restart-slide reset. Pressing 'r' on a slide sets every line of every
\* Codio renderer of that slide back to len = 0, not started, not complete
\* (the state the renderer is constructed with, so the following ticks
\* produce the frames of the initial state), and leaves current_slide, the
\* displayed scene and the reveal state of every other slide unchanged.
C6_RestartSlide ==
    [][(PressR /\ scene < NumSlides) =>
        /\ AllPending(state'[scene + 1])
        /\ \A r \in Elems(scene + 1) :
              Codio_render_now(code[scene + 1][r], state'[scene + 1][r])
                  = Codio_render_now(code[scene + 1][r],
                        [i \in LineIdx(scene + 1, r) |-> Pending])
        /\ current_slide' = current_slide
        /\ scene' = scene
        /\ \A s \in Slides : s # scene + 1 => state'[s] = state[s]]_vars

\* 'r' was pressed on a slide with two renderers after both had revealed
C6_Witness ==
    /\ scene < NumSlides
    /\ Elems(scene + 1) = {1, 2}
    /\ AllPending(state[scene + 1])
    /\ \A r \in Elems(scene + 1) : image[scene + 1][r] # <<>>

\* C7: reset on re-entry. Whenever the displayed scene changes to a slide, by
\* back/next navigation or by restarting the show from the restart screen,
\* every line of the slide's Codio renderers is pending with len = 0.
C7_ResetOnReentry ==
    [][(scene' # scene /\ scene' < NumSlides) =>
        \A r \in Elems(scene' + 1) : \A i \in LineIdx(scene' + 1, r) :
            /\ state'[scene' + 1][r][i].len = 0
            /\ ~state'[scene' + 1][r][i].end]_vars

\* C8: inert lines. A line of the renderer's transcript whose input and
\* output are both empty is never written to a frame, and no tick raises.
C8_InertLines ==
    /\ error = "none"
    /\ \A s \in Slides : \A r \in Elems(s) : \A i \in LineIdx(s, r) :
          (code[s][r][i + 1].in = "" /\ code[s][r][i + 1].out = "")
              => ~Displayed(image[s][r], i)

-----------------------------------------------------------------------------
(* Properties of the slide assembler *)

Constructed == slide.status = "ok"

Failed == slide.status = "error"

\* C9: effect/code mutual exclusion. A constructed slide never has both
\* has_effect and has_code, whatever the order of its elements.
C9_EffectCodeExclusive ==
    Constructed => ~(slide.has_effect /\ slide.has_code)

\* the directives of the element list, in order
Directives ==
    LET htmls == SelectSeq(elements, LAMBDA e : e.type = "html" /\ StyleGiven(e.style))
    IN  [k \in DOMAIN htmls |-> htmls[k].style]

KnownColor(c) == c \in DOMAIN COLORS

EffectWithColor(st) ==
    /\ st.effect \in EFFECTS
    /\ KnownColor(st.fg) \/ KnownColor(st.bg)

\* C10: effect/color mutual exclusion. When the element list holds a style
\* directive with a known effect and a known fg or bg color, construction
\* fails; when that directive is the first one applied and gives no unknown
\* color, the failure is the effect/color incompatibility error.
C10_EffectColorExclusive ==
    (slide.status # "none" /\ \E k \in DOMAIN Directives : EffectWithColor(Directives[k]))
        => /\ Failed
           /\ (EffectWithColor(Directives[1])
                /\ Directives[1].fg \in DOMAIN COLORS \cup {""}
                /\ Directives[1].bg \in DOMAIN COLORS \cup {""})
                  => slide.error = "Effects and colors on the same slide are not supported"

C10_Witness ==
    /\ Failed
    /\ Len(elements) = 2
    /\ elements[1].type = "paragraph"
    /\ elements[2].type = "html"
    /\ elements[2].style = Style("stars", "red", "", FALSE)
    /\ slide.error = "Effects and colors on the same slide are not supported"

\* C11: effect color overwrite. A slide constructed with a resolved effect
\* has (fg_color, bg_color) = (7, 0), and every element of slide.elements
\* has fg = 7 and bg = 0.
C11_EffectColorOverwrite ==
    (Constructed /\ slide.has_effect) =>
        /\ slide.fg_color = 7
        /\ slide.bg_color = 0
        /\ \A k \in DOMAIN slide.elements :
              slide.elements[k].fg = 7 /\ slide.elements[k].bg = 0

\* the index in elements of the first directive that is applied
FirstDirectiveAt ==
    CHOOSE k \in DOMAIN elements :
        /\ elements[k].type = "html" /\ elements[k].style # NoStyle
        /\ \A j \in 1..(k - 1) : ~(elements[j].type = "html" /\ elements[j].style # NoStyle)

CodeBefore(k) == \E j \in 1..(k - 1) : elements[j].type = "code"

C12_Case(d, k) ==
    IF d.effect # "" /\ d.effect \notin EFFECTS
    THEN Failed /\ slide.error = "Effect is not supported"
    ELSE IF (d.fg # "" /\ ~KnownColor(d.fg)) \/ (d.bg # "" /\ ~KnownColor(d.bg))
    THEN Failed /\ slide.error = "Color is not supported"
    ELSE IF d.effect # "" /\ (d.fg # "" \/ d.bg # "")
    THEN Failed /\ slide.error = "Effects and colors on the same slide are not supported"
    ELSE IF d.effect # "" /\ CodeBefore(k)
    THEN Failed /\ slide.error = "Effects and code on the same slide are not supported"
    ELSE Len(Directives) = 1 => Constructed /\ slide.style = d

\* C12: style validation errors and their order. For the first directive
\* applied to a slide: an effect outside the known set raises the
\* unsupported-effect error whatever the other fields; otherwise an fg or bg
\* outside the color table raises the unsupported-color error, also when an
\* effect is given; otherwise the effect/color and effect/code
\* incompatibilities are reported; a directive with only known values and no
\* incompatibility raises nothing.
C12_StyleErrors ==
    (slide.status # "none" /\ Len(Directives) >= 1) =>
        C12_Case(elements[FirstDirectiveAt].style, FirstDirectiveAt)

C12_Witness ==
    /\ Failed
    /\ slide.error = "Color is not supported"
    /\ Len(elements) = 1
    /\ elements[1].type = "html"
    /\ elements[1].style = Style("stars", "puce", "", FALSE)

IsKind(t) == \E k \in DOMAIN elements : elements[k].type = t

\* C14: slide assembly. For a constructed slide, slide.elements is the
\* input list without its html elements, in the same order; has_code,
\* has_codio and has_image say whether the input holds an element of that
\* kind; has_style says whether some html element carries a non-empty
\* style directive.
C14_Assembly ==
    Constructed =>
        /\ slide.elements = SelectSeq(elements, LAMBDA e : e.type # "html")
        /\ slide.has_code = IsKind("code")
        /\ slide.has_codio = IsKind("codio")
        /\ slide.has_image = IsKind("image")
        /\ slide.has_style =
              \E k \in DOMAIN elements :
                  elements[k].type = "html" /\ elements[k].style # NoStyle

C14_Witness ==
    /\ Constructed
    /\ Len(elements) = 2
    /\ elements[1].type = "html"
    /\ elements[1].style = Style("", "", "", TRUE)
    /\ elements[2].type = "image"
    /\ slide.has_style /\ slide.has_image
    /\ Len(slide.elements) = 1

-----------------------------------------------------------------------------
(* Properties of Markdown.parse *)

Parsed == parsed.status = "ok"

\* C13: empty slides are dropped. No slide that parse returns has an empty
\* list of renderable elements; a document of one raw-markup comment and one
\* thematic break yields no slide.
C13_NoEmptySlide ==
    Parsed => \A k \in DOMAIN parsed.slides : parsed.slides[k].elements # <<>>

KnownNodeTypes ==
    {"newline", "thematic_break", "heading", "list", "block_code", "codio", "image",
     "block_html", "text", "codespan", "strong", "emphasis", "link", "paragraph",
     "block_quote"}

HasUnknownNode ==
    \E k \in DOMAIN document :
        \/ document[k].type \notin KnownNodeTypes
        \/ \E j \in DOMAIN document[k].children :
              document[k].children[j].type \notin KnownNodeTypes

\* C19: unknown node types are fatal at construction. When the document
\* holds a node, top-level or inside a paragraph, whose type is outside the
\* closed set, parse raises and returns no slides.
C19_UnknownTypeFatal ==
    (parsed.status # "none" /\ HasUnknownNode) => parsed.status = "error"

\* C20: missing image fails fast. parse never returns a slide that holds an
\* image element whose file does not exist.
C20_MissingImageFatal ==
    Parsed =>
        \A k \in DOMAIN parsed.slides : \A j \in DOMAIN parsed.slides[k].elements :
            LET e == parsed.slides[k].elements[j]
            IN  e.type = "image" => e.src_exists

-----------------------------------------------------------------------------
(* Properties of DynamicFormatter *)

RECURSIVE Depth(_)
\* the number of parent steps from a token type to the root
Depth(ttype) == IF ttype = "Token" THEN 0 ELSE 1 + Depth(Parent(ttype))

RECURSIVE Ancestors(_)
\* a token type and all the types above it
Ancestors(ttype) == IF ttype = "Token" THEN {"Token"} ELSE {ttype} \cup Ancestors(Parent(ttype))

\* the deepest of the ancestors of ttype that has an entry in the table
Nearest(colorscheme, ttype) ==
    CHOOSE a \in Ancestors(ttype) \cap DOMAIN colorscheme :
        \A b \in Ancestors(ttype) \cap DOMAIN colorscheme : Depth(b) <= Depth(a)

LookedUp == formatter.status = "ok" /\ lookup.status # "none"

\* C15: colour fallback. With a root entry in the table, _get_color of any
\* token type ends within depth(type) parent hops, raises nothing, and
\* returns the colour of the nearest ancestor (the type included) with an entry.
C15_ColorFallback ==
    (LookedUp /\ "Token" \in DOMAIN formatter.colorscheme) =>
        /\ lookup.status = "ok"
        /\ lookup.hops <= Depth(lookup.ttype)
        /\ lookup.color = formatter.colorscheme[Nearest(formatter.colorscheme, lookup.ttype)]

\* C15 witness: a lookup two levels deep that skipped a type without an entry
\* and stopped at a black entry below the root
C15_Witness ==
    /\ LookedUp /\ "Token" \in DOMAIN formatter.colorscheme
    /\ lookup.ttype = "Name.Function.Magic"
    /\ lookup.status = "ok" /\ lookup.hops = 2 /\ lookup.color = 0
    /\ formatter.colorscheme["Token"] = 2

\* C16: the root entry is enforced at construction. No formatter is built
\* on a colour table without an entry for the root token type.
C16_RootEnforced ==
    formatter.status = "ok" => "Token" \in DOMAIN formatter.colorscheme

-----------------------------------------------------------------------------
(* Properties of the transcript element *)

Min(a, b) == IF a <= b THEN a ELSE b

\* the speed the transcript asks for: its speed key, or the default
AskedSpeed == IF codio.speed.none THEN 5 ELSE codio.speed.v

\* C17: inverted clamped speed. The speed handed to the renderer is
\* 11 - min(max(s, 1), 10) for the speed s of the transcript; it lies in
\* 1..10, does not grow when s grows, and is 6 when no speed is given.
C17_InvertedClampedSpeed ==
    printed.status = "ok" =>
        /\ printed.speed = 11 - Min(Max(AskedSpeed, 1), 10)
        /\ printed.speed \in 1..10
        /\ (codio.speed.none => printed.speed = 6)
        /\ \A v \in Speeds \ {Absent} :
              v.v >= AskedSpeed => Codio_speed([codio EXCEPT !.speed = v]) <= printed.speed

\* C17 witness: a speed below 1 that was clamped
C17_Witness ==
    /\ printed.status = "ok"
    /\ ~codio.speed.none /\ codio.speed.v < 1
    /\ printed.speed = 10

BothInOut(line) == line.in # "" /\ line.out # ""

\* C18: the transcript size covers every frame. size is the number of lines
\* plus the number of lines with both input and output plus 2, and no frame
\* of the reveal holds more than size - 2 rows.
C18_SizeCoversFrames ==
    \A s \in Slides : \A r \in Elems(s) :
        LET lines == obj[s][r]
        IN  /\ Codio_size(lines) = Len(lines) + Len(SelectSeq(lines, BothInOut)) + 2
            /\ Len(image[s][r]) <= Codio_size(lines) - 2

\* C18 witness: a frame of a two-line transcript, one line with input and
\* output, that fills all size - 2 rows
C18_Witness ==
    \E s \in Slides : \E r \in Elems(s) :
        LET lines == obj[s][r]
        IN  /\ Len(lines) = 2
            /\ \E k \in 1..2 : BothInOut(lines[k])
            /\ Len(image[s][r]) = Codio_size(lines) - 2
            /\ Len(image[s][r]) = 3

-----------------------------------------------------------------------------
(* Properties of the heading and the code block *)

\* C21: heading layout. A level-2 heading has size 2 and renders as its
\* text over a rule of dashes of the same length; a heading of level 3 or
\* deeper has size 1 and is printed bold whatever attribute was passed.
C21_HeadingLayout ==
    (printable.status = "heading" /\ rendered.status = "ok") =>
        /\ printable.level = 2 =>
              /\ rendered.size = 2
              /\ rendered.text = <<printable.text, Repeat("-", Len(printable.text))>>
        /\ printable.level >= 3 =>
              /\ rendered.size = 1
              /\ rendered.text = <<printable.text>>
              /\ rendered.attr = "bold"

RECURSIVE RowsLoop(_, _, _, _)
\* the rows of a printed string: every line break ends a row
RowsLoop(s, i, cur, out) ==
    IF i > Len(s) THEN Append(out, cur)
    ELSE IF SubSeq(s, i, i) = "\n" THEN RowsLoop(s, i + 1, "", Append(out, cur))
    ELSE RowsLoop(s, i + 1, cur \o SubSeq(s, i, i), out)

RowsOf(s) == RowsLoop(s, 1, "", <<>>)

\* the number of line breaks of s, not counting one that ends it, plus one
NumSourceLines(s) ==
    Cardinality({i \in 1..(Len(s) - 1) : SubSeq(s, i, i) = "\n"}) + 1

CodePrinted == printable.status = "code" /\ rendered.status # "none"

\* C22: code block frame. For a non-empty code text without a language tag,
\* size is the number of source lines; the render has size + 2 rows, each
\* longest line + 2 columns wide; the first and last rows are blank, every
\* other row is a space, the source line, and padding. "a\nbb\nccc" has
\* size 3 and rows of 5 columns.
C22_CodeFrame ==
    (CodePrinted /\ printable.text # "") =>
        /\ rendered.status = "ok"
        /\ LET src == Splitlines(printable.text)
               rows == RowsOf(rendered.text)
               w == MaxLen(src) + 2
           IN  /\ rendered.size = NumSourceLines(printable.text)
               /\ Len(rows) = rendered.size + 2
               /\ \A k \in 1..Len(rows) : Len(rows[k]) = w
               /\ rows[1] = Repeat(" ", w)
               /\ rows[Len(rows)] = Repeat(" ", w)
               /\ \A k \in 1..Len(src) :
                     rows[k + 1] = " " \o src[k] \o Repeat(" ", w - 1 - Len(src[k]))
               /\ printable.text = "a\nbb\nccc" =>
                     (rendered.size = 3 /\ \A k \in 1..Len(rows) : Len(rows[k]) = 5)

\* C22 witness: the three-line example, printed
C22_Witness ==
    /\ CodePrinted /\ printable.text = "a\nbb\nccc"
    /\ rendered.status = "ok" /\ rendered.size = 3

-----------------------------------------------------------------------------
(* Properties of format_unencoded *)

Formatted == outfile.status = "ok"

Cells == outfile.characters

\* cell k is the first content cell of a line of content
StartsLine(k) ==
    /\ Cells[k].kind = "text"
    /\ \A j \in 1..(k - 1) :
          (Cells[j].kind = "text" /\ \A i \in (j + 1)..(k - 1) : Cells[i].kind # "text")
              => EndsWithNewline(Cells[j].text)

\* the positions of the line-number cells, and how many precede position k
LinenoAt == {k \in DOMAIN Cells : Cells[k].kind = "lineno"}

LinenosBefore(k) == Cardinality({j \in LinenoAt : j < k})

\* C23: line-number cells. With line numbering on, every line of content
\* has exactly one zero-padded line-number cell, right before its first
\* content cell, numbered consecutively; no line-number cell lacks a
\* content cell of its line after it.
C23_LinenoCells ==
    (Formatted /\ formatter.linenos) =>
        /\ \A k \in DOMAIN Cells :
              StartsLine(k) => (k > 1 /\ Cells[k - 1].kind = "lineno")
        /\ \A k \in LinenoAt :
              /\ Cells[k].text = Zfill2(LinenosBefore(k))
              /\ k < Len(Cells) /\ StartsLine(k + 1)

RECURSIVE Concat(_)
\* the texts of a sequence of records with a text field, joined
Concat(seq) == IF seq = <<>> THEN "" ELSE Head(seq).text \o Concat(Tail(seq))

RECURSIVE ConcatValues(_)
ConcatValues(source) ==
    IF source = <<>> THEN "" ELSE Head(source).value \o ConcatValues(Tail(source))

\* no line break in t before its last character
BreakOnlyLast(t) == \A i \in 1..(Len(t) - 1) : SubSeq(t, i, i) # "\n"

\* C24: fragment round trip. With line numbering off, the texts of the cells
\* joined are the token texts joined; a cell holds a line break only as its
\* last character; every cell has the colour _get_color gives its token.
\* The call raises nothing when the table has a root entry.
C24_FragmentRoundTrip ==
    (outfile.status # "none" /\ ~formatter.linenos) =>
        /\ "Token" \in DOMAIN formatter.colorscheme => Formatted
        /\ Formatted =>
              /\ Concat(Cells) = ConcatValues(tokensource)
              /\ \A k \in DOMAIN Cells :
                    /\ Cells[k].kind = "text"
                    /\ BreakOnlyLast(Cells[k].text)
                    /\ Cells[k].color =
                          formatter.colorscheme[
                              Nearest(formatter.colorscheme, tokensource[Cells[k].token].ttype)]

\* C24 witness: a token spanning two lines gave two cells, next to a cell
\* of another colour
C24_Witness ==
    /\ Formatted /\ ~formatter.linenos
    /\ Len(tokensource) = 2 /\ tokensource[1].value = "a\nb"
    /\ Len(Cells) = 3
    /\ Cells[1].text = "a\n" /\ Cells[2].text = "b"
    /\ Cells[3].color # Cells[1].color

-----------------------------------------------------------------------------
(* Properties of the transcript frame and of playback *)

\* C25: the transcript width covers every written row. Every row the reveal
\* engine writes starts at column 1 and ends before column width, the
\* width being the largest of prompt length, input length plus spaces,
\* output length plus spaces and the quarter terminal of progress lines,
\* plus 4.
C25_WidthCoversRows ==
    \A s \in Slides : \A r \in Elems(s) : \A k \in 1..Len(image[s][r]) :
        1 + Len(image[s][r][k].text) <= Codio_width(obj[s][r])

\* every line of the transcript has input or output
EachLineHasText ==
    \A s \in Slides : \A r \in Elems(s) : \A k \in 1..Len(obj[s][r]) :
        obj[s][r][k].in # "" \/ obj[s][r][k].out # ""

AllComplete ==
    \A s \in Slides : \A r \in Elems(s) : \A i \in LineIdx(s, r) : state[s][r][i].end

RECURSIVE SumInputs(_)
\* the sum over the lines of len(input) + 1
SumInputs(lines) ==
    IF lines = <<>> THEN 0 ELSE Len(Head(lines).in) + 1 + SumInputs(Tail(lines))

\* C26: reveal liveness. For a transcript whose lines all have input or
\* output, ticking from the reset state without a reset completes every
\* line, within the sum over the lines of len(input) + 1 ticks, and every
\* later tick draws the same frame.
C26_RevealLiveness ==
    /\ EachLineHasText => <>AllComplete
    /\ [](EachLineHasText /\ ticks >= SumInputs(obj[1][1]) => AllComplete)
    /\ [][(EachLineHasText /\ AllComplete /\ LiveTick) => image' = image]_vars

\* C26 witness: a two-line transcript complete one tick before the bound,
\* with a further frame drawn
C26_Witness ==
    /\ EachLineHasText /\ AllComplete
    /\ Len(obj[1][1]) = 2
    /\ obj[1][1][1].in # "" /\ obj[1][1][2].in # ""
    /\ ticks = SumInputs(obj[1][1])
    /\ Len(image[1][1]) >= 2

\* C27: navigation index bounds. Whatever next and back keys are pressed,
\* current_slide stays within 0..len(slides); while it is below len(slides)
\* the scene displayed is slides[current_slide]; back on the first slide
\* leaves the first slide displayed and current_slide at 0.
C27_NavigationBounds ==
    /\ [](current_slide \in 0..NumSlides)
    /\ [](current_slide < NumSlides => scene = current_slide)
    /\ [][(PressBack /\ current_slide = 0) => (current_slide' = 0 /\ scene' = 0)]_vars

====
